---- MODULE Spec2Model ----
(***************************************************************************)
(* Model of the Cedar policy compiler: lowering of a policy's condition    *)
(* to the stack IR (src/src/ast/lowering.rs), the optimization passes      *)
(* (src/src/optimization), WebAssembly code generation                     *)
(* (src/src/wasm/codegen.rs) and the compiler facade (src/src/compiler.rs).*)
(***************************************************************************)
EXTENDS Integers, Sequences, FiniteSets, TLC

(***************************************************************************)
(* Bounds of the model.                                                    *)
(***************************************************************************)
\* Largest number of AST nodes of a policy condition.
MaxNodes == 4
\* Longest hand-built instruction list given to optimize / generate.
MaxLen == 3
\* Most successful generate calls made on the one long-lived WasmCodeGen.
MaxGenerate == 2

(***************************************************************************)
(* Program constants.                                                      *)
(***************************************************************************)
\* runtime.rs, enum Decision (repr i32)
DecisionNoDecision == -1
DecisionDeny == 0
DecisionPermit == 1
\* runtime.rs, mod memory
INITIAL_PAGES == 1
MAX_PAGES == 16
\* compiler.rs, Compiler::new
DefaultOptLevel == 1
\* compiler.rs, with_opt_level: level.min(2)
MaxOptLevel == 2

(***************************************************************************)
(* The external AST (cedar_policy_core::ast) as far as lowering reads it.  *)
(***************************************************************************)
LitBool(b) == [kind |-> "Lit", lit |-> [t |-> "Bool", b |-> b]]
LitLong(i) == [kind |-> "Lit", lit |-> [t |-> "Long", i |-> i]]
LitString(s) == [kind |-> "Lit", lit |-> [t |-> "String", s |-> s]]
\* An entity literal carries the value DefaultHasher gives its string form.
LitEntityUID(h) == [kind |-> "Lit", lit |-> [t |-> "EntityUID", hash |-> h]]
VarE(v) == [kind |-> "Var", var |-> v]
UnaryApp(op, a) == [kind |-> "UnaryApp", op |-> op, arg |-> a]
BinaryApp(op, a1, a2) == [kind |-> "BinaryApp", op |-> op, arg1 |-> a1, arg2 |-> a2]
AndE(l, r) == [kind |-> "And", left |-> l, right |-> r]
OrE(l, r) == [kind |-> "Or", left |-> l, right |-> r]
GetAttr(e, a) == [kind |-> "GetAttr", expr |-> e, attr |-> a]
HasAttr(e, a) == [kind |-> "HasAttr", expr |-> e, attr |-> a]
IfE(c, t, e) == [kind |-> "If", test_expr |-> c, then_expr |-> t, else_expr |-> e]
\* An expression kind lowering has no arm for (pattern match `like`).
LikeE(e) == [kind |-> "Like", expr |-> e]

\* Leaves of the enumerated conditions.
Leaves ==
    {LitBool(TRUE), LitBool(FALSE), LitLong(1), LitString("a"), VarE("Principal")}

\* Unary and binary operators of the AST that appear in enumerated conditions:
\* the ones lowering accepts and one of each it rejects.
UnaryOps == {"Not", "Neg"}
BinaryOps == {"Eq", "In", "Less", "LessEq", "Add"}

RECURSIVE ExprsOfSize(_)
\* All conditions with exactly n AST nodes.
ExprsOfSize(n) ==
    IF n <= 0 THEN {}
    ELSE IF n = 1 THEN Leaves
    ELSE
        LET sub == [k \in 1..(n - 1) |-> ExprsOfSize(k)]
            un == [kind : {"UnaryApp"}, op : UnaryOps, arg : sub[n - 1]]
                  \cup [kind : {"GetAttr", "HasAttr"}, expr : sub[n - 1],
                        attr : {"attr"}]
                  \cup [kind : {"Like"}, expr : sub[n - 1]]
            bin == UNION {
                     [kind : {"BinaryApp"}, op : BinaryOps,
                      arg1 : sub[k], arg2 : sub[n - 1 - k]]
                     \cup [kind : {"And", "Or"},
                           left : sub[k], right : sub[n - 1 - k]]
                     : k \in 1..(n - 2)}
            tern == UNION { UNION {
                     [kind : {"If"}, test_expr : sub[i], then_expr : sub[j],
                      else_expr : sub[n - 1 - i - j]]
                     : j \in 1..(n - 2 - i)} : i \in 1..(n - 3)}
        IN un \cup bin \cup tern

Exprs == UNION {ExprsOfSize(n) : n \in 1..MaxNodes}

Effects == {"Permit", "Forbid"}

\* A parsed policy or template: its effect and its `when` condition.
Templates == [effect : Effects, condition : Exprs]

(***************************************************************************)
(* The stack IR (lowering.rs, enum Instruction).                           *)
(***************************************************************************)
PushBool(b) == [op |-> "PushBool", b |-> b]
PushInt(i) == [op |-> "PushInt", i |-> i]
PushString(s) == [op |-> "PushString", s |-> s]
GetAttribute(a) == [op |-> "GetAttribute", attr |-> a]
HasAttribute(a) == [op |-> "HasAttribute", attr |-> a]
Ins(name) == [op |-> name]

\* Result<(), String> of compile_expr together with the instruction vector
\* it appended to; an error carries the message and the construct it names.
OkInstrs(is) == [ok |-> TRUE, instructions |-> is, err |-> <<>>]
ErrMsg(msg, what) == [ok |-> FALSE, instructions |-> <<>>, err |-> <<msg, what>>]

\* compile_literal: booleans are pushed as i64 integers.
compile_literal(lit) ==
    CASE lit.t = "Bool" -> PushInt(IF lit.b THEN 1 ELSE 0)
      [] lit.t = "Long" -> PushInt(lit.i)
      [] lit.t = "String" -> PushString(lit.s)
      [] lit.t = "EntityUID" -> PushInt(lit.hash)

\* The placeholder pushed for a variable reference.
VarPlaceholder(var) ==
    CASE var = "Principal" -> PushInt(1)
      [] var = "Action" -> PushInt(2)
      [] var = "Resource" -> PushInt(3)
      [] var = "Context" -> PushInt(0)

\* A slip of the operator match: the fallback arm pushes Equal instead of
\* failing.
BinaryOpInstr_fallback_equal(op) ==
    CASE op = "In" -> "In"
      [] op = "Less" -> "LessThan"
      [] op = "LessEq" -> "LessThanOrEqual"
      [] OTHER -> "Equal"

\* The binary operators compile_expr has an instruction for.
BinaryOpInstr(op) ==
    CASE op = "Eq" -> "Equal"
      [] op = "In" -> "In"
      [] op = "Less" -> "LessThan"
      [] op = "LessEq" -> "LessThanOrEqual"
      [] OTHER -> "none"

\* The unary operators compile_expr has an instruction for.
UnaryOpInstr(op) ==
    CASE op = "Not" -> "Not"
      [] OTHER -> "none"

RECURSIVE compile_expr(_, _)
\* compile_expr(expr, instructions): appends the code of expr to instructions,
\* or fails at the first unsupported construct met in evaluation order.
compile_expr(expr, instructions) ==
    CASE expr.kind = "Lit" ->
            OkInstrs(Append(instructions, compile_literal(expr.lit)))
      [] expr.kind = "BinaryApp" ->
            LET r1 == compile_expr(expr.arg1, instructions) IN
            IF ~r1.ok THEN r1 ELSE
            LET r2 == compile_expr(expr.arg2, r1.instructions) IN
            IF ~r2.ok THEN r2 ELSE
            IF BinaryOpInstr(expr.op) = "none"
            THEN ErrMsg("Unsupported binary operator", expr.op)
            ELSE OkInstrs(Append(r2.instructions, Ins(BinaryOpInstr(expr.op))))
      [] expr.kind = "UnaryApp" ->
            LET r1 == compile_expr(expr.arg, instructions) IN
            IF ~r1.ok THEN r1 ELSE
            IF UnaryOpInstr(expr.op) = "none"
            THEN ErrMsg("Unsupported unary operator", expr.op)
            ELSE OkInstrs(Append(r1.instructions, Ins(UnaryOpInstr(expr.op))))
      [] expr.kind = "And" ->
            LET r1 == compile_expr(expr.left, instructions) IN
            IF ~r1.ok THEN r1 ELSE
            LET r2 == compile_expr(expr.right, r1.instructions) IN
            IF ~r2.ok THEN r2 ELSE
            OkInstrs(Append(r2.instructions, Ins("And")))
      [] expr.kind = "Or" ->
            LET r1 == compile_expr(expr.left, instructions) IN
            IF ~r1.ok THEN r1 ELSE
            LET r2 == compile_expr(expr.right, r1.instructions) IN
            IF ~r2.ok THEN r2 ELSE
            OkInstrs(Append(r2.instructions, Ins("Or")))
      [] expr.kind = "GetAttr" ->
            LET r1 == compile_expr(expr.expr, instructions) IN
            IF ~r1.ok THEN r1 ELSE
            OkInstrs(Append(r1.instructions, GetAttribute(expr.attr)))
      [] expr.kind = "HasAttr" ->
            LET r1 == compile_expr(expr.expr, instructions) IN
            IF ~r1.ok THEN r1 ELSE
            OkInstrs(Append(r1.instructions, HasAttribute(expr.attr)))
      [] expr.kind = "If" ->
            LET r1 == compile_expr(expr.test_expr, instructions) IN
            IF ~r1.ok THEN r1 ELSE
            LET r2 == compile_expr(expr.then_expr, r1.instructions) IN
            IF ~r2.ok THEN r2 ELSE
            LET r3 == compile_expr(expr.else_expr, r2.instructions) IN
            IF ~r3.ok THEN r3 ELSE
            OkInstrs(Append(r3.instructions, Ins("IfThenElse")))
      [] expr.kind = "Var" ->
            OkInstrs(Append(instructions, VarPlaceholder(expr.var)))
      [] OTHER ->
            ErrMsg("Expression type not yet supported in compiler", expr.kind)

\* The instruction a policy's declared effect is lowered to.
EffectInstr(effect) ==
    IF effect = "Permit" THEN Ins("Permit") ELSE Ins("Forbid")

\* A slip of from_template: the fallback is pushed before the effect.
from_template_else_first(template) ==
    LET r == compile_expr(template.condition,
                          <<Ins("NoDecision"), EffectInstr(template.effect)>>)
    IN IF ~r.ok THEN r
       ELSE OkInstrs(r.instructions \o <<Ins("IfThenElse"), Ins("Return")>>)

\* A slip of from_template: the final Return is not pushed.
from_template_no_return(template) ==
    LET r == compile_expr(template.condition,
                          <<EffectInstr(template.effect), Ins("NoDecision")>>)
    IN IF ~r.ok THEN r
       ELSE OkInstrs(Append(r.instructions, Ins("IfThenElse")))

\* A slip of from_template: the NoDecision fallback is not pushed.
from_template_no_fallback(template) ==
    LET r == compile_expr(template.condition, <<EffectInstr(template.effect)>>)
    IN IF ~r.ok THEN r
       ELSE OkInstrs(r.instructions \o <<Ins("IfThenElse"), Ins("Return")>>)

\* LoweredModule::from_template: effect, NoDecision, condition, IfThenElse,
\* Return.
from_template(template) ==
    LET r == compile_expr(template.condition,
                          <<EffectInstr(template.effect), Ins("NoDecision")>>)
    IN IF ~r.ok THEN r
       ELSE OkInstrs(r.instructions \o <<Ins("IfThenElse"), Ins("Return")>>)

\* LoweredModule::from_policy: the same assembly for a Policy (the debug
\* files it writes are not part of its result).
from_policy(policy) ==
    LET r == compile_expr(policy.condition,
                          <<EffectInstr(policy.effect), Ins("NoDecision")>>)
    IN IF ~r.ok THEN r
       ELSE OkInstrs(r.instructions \o <<Ins("IfThenElse"), Ins("Return")>>)

(***************************************************************************)
(* Optimization passes (optimization/passes.rs, optimization/mod.rs).      *)
(* A module is its entry function's instruction list.                      *)
(***************************************************************************)
\* constant_folding: returns the module it is given.
constant_folding(module) == module

\* position(|inst| matches!(inst, Instruction::Return)): index (from 1) of
\* the first Return, 0 when there is none.
ReturnPosition(instructions) ==
    LET hits == {i \in 1..Len(instructions) : instructions[i].op = "Return"}
    IN IF hits = {} THEN 0 ELSE CHOOSE i \in hits : \A j \in hits : i <= j

\* A slip of dead_code_elimination: split_off keeps the tail after the first
\* Return instead of the head.
dead_code_elimination_keeps_tail(module) ==
    LET return_idx == ReturnPosition(module)
    IN IF return_idx # 0
       THEN SubSeq(module, return_idx + 1, Len(module))
       ELSE module

\* A slip of dead_code_elimination: removes only the one instruction that
\* follows the first Return.
dead_code_elimination_removes_one(module) ==
    LET return_idx == ReturnPosition(module)
    IN IF return_idx # 0 /\ return_idx < Len(module)
       THEN SubSeq(module, 1, return_idx) \o SubSeq(module, return_idx + 2, Len(module))
       ELSE module

\* A slip of dead_code_elimination: truncates at the Return, dropping it.
dead_code_elimination_drops_return(module) ==
    LET return_idx == ReturnPosition(module)
    IN IF return_idx # 0
       THEN SubSeq(module, 1, return_idx - 1)
       ELSE module

\* dead_code_elimination: truncate(return_idx + 1) at the first Return.
dead_code_elimination(module) ==
    LET return_idx == ReturnPosition(module)
    IN IF return_idx # 0
       THEN SubSeq(module, 1, return_idx)
       ELSE module

\* instruction_combining: returns the module it is given.
instruction_combining(module) == module

\* optimize(module, opt_level)
optimize(module, opt_level) ==
    LET o1 == IF opt_level >= 1
              THEN dead_code_elimination(constant_folding(module))
              ELSE module
    IN IF opt_level >= 2 THEN instruction_combining(o1) ELSE o1

(***************************************************************************)
(* Code generation (wasm/codegen.rs, wasm/types.rs, wasm/runtime.rs).      *)
(***************************************************************************)
W(name) == [w |-> name]
I32Const(v) == [w |-> "I32Const", v |-> v]
I64Const(v) == [w |-> "I64Const", v |-> v]

OkWasm(ws) == [ok |-> TRUE, wasm |-> ws, err |-> ""]
ErrWasm(msg) == [ok |-> FALSE, wasm |-> <<>>, err |-> msg]

\* compile_instruction: the WebAssembly instruction(s) of one IR instruction.
compile_instruction(inst) ==
    CASE inst.op = "PushBool" -> OkWasm(<<I32Const(IF inst.b THEN 1 ELSE 0)>>)
      [] inst.op = "PushInt" -> OkWasm(<<I64Const(inst.i)>>)
      [] inst.op = "PushString" -> OkWasm(<<I32Const(0)>>)
      [] inst.op = "Equal" -> OkWasm(<<W("I64Eq")>>)
      [] inst.op = "NotEqual" -> OkWasm(<<W("I64Ne")>>)
      [] inst.op = "LessThan" -> OkWasm(<<W("I64LtS")>>)
      [] inst.op = "LessThanOrEqual" -> OkWasm(<<W("I64LeS")>>)
      [] inst.op = "GreaterThan" -> OkWasm(<<W("I64GtS")>>)
      [] inst.op = "GreaterThanOrEqual" -> OkWasm(<<W("I64GeS")>>)
      [] inst.op = "And" -> OkWasm(<<W("I32And")>>)
      [] inst.op = "Or" -> OkWasm(<<W("I32Or")>>)
      [] inst.op = "Not" -> OkWasm(<<W("I32Eqz")>>)
      [] inst.op = "IfThenElse" -> OkWasm(<<W("Select")>>)
      [] inst.op = "Return" -> OkWasm(<<W("Return")>>)
      [] inst.op = "Permit" -> OkWasm(<<I32Const(DecisionPermit)>>)
      [] inst.op = "Forbid" -> OkWasm(<<I32Const(DecisionDeny)>>)
      [] inst.op = "NoDecision" -> OkWasm(<<I32Const(DecisionNoDecision)>>)
      [] inst.op = "GetAttribute" -> ErrWasm("GetAttribute not yet implemented")
      [] inst.op = "HasAttribute" -> ErrWasm("HasAttribute not yet implemented")
      [] inst.op = "In" -> ErrWasm("In operator not yet implemented")

RECURSIVE compile_function_from(_, _, _)
\* The loop of compile_function from instruction i on, f being the body so
\* far: the first failing instruction ends it.
compile_function_from(instructions, i, f) ==
    IF i > Len(instructions) THEN OkWasm(Append(f, W("End")))
    ELSE LET r == compile_instruction(instructions[i])
         IN IF ~r.ok THEN r
            ELSE compile_function_from(instructions, i + 1, f \o r.wasm)

\* compile_function: every instruction of the list, then End.
compile_function(instructions) ==
    compile_function_from(instructions, 1, <<>>)

\* WasmType::to_val_type
to_val_type(t) ==
    CASE t = "Bool" -> "I32"
      [] t = "Int" -> "I64"
      [] t = "String" -> "I32"
      [] t = "Entity" -> "I32"

\* FunctionSignature::policy_entry
policy_entry == [params |-> <<>>, results |-> <<"Bool">>]

\* Module::new(): the header and no section.
NewModule == [magic |-> "\\0asm", sections |-> <<>>]

\* The five sections generate builds, in the order it appends them.
TypeSection ==
    [id |-> "type",
     types |-> <<[params |-> [i \in 1..Len(policy_entry.params) |->
                                 to_val_type(policy_entry.params[i])],
                  results |-> [i \in 1..Len(policy_entry.results) |->
                                 to_val_type(policy_entry.results[i])]]>>]
FunctionSectionOf == [id |-> "function", functions |-> <<0>>]
MemorySectionOf ==
    [id |-> "memory",
     memories |-> <<[minimum |-> INITIAL_PAGES, maximum |-> MAX_PAGES]>>]
ExportSectionOf ==
    [id |-> "export",
     exports |-> <<[name |-> "evaluate", kind |-> "Func", index |-> 0],
                   [name |-> "memory", kind |-> "Memory", index |-> 0]>>]
CodeSectionOf(func_body) == [id |-> "code", bodies |-> <<func_body>>]

\* Result<Vec<u8>, String> of generate, with the generator's module field
\* after the call.
OkBytes(bytes, module) == [ok |-> TRUE, bytes |-> bytes, err |-> "", module |-> module]
ErrGen(msg, module) == [ok |-> FALSE, bytes |-> <<>>, err |-> msg, module |-> module]

\* A slip of generate: the four leading sections are appended to the module
\* before the function body is compiled.
generate_appends_first(module, lowered) ==
    LET func_body == compile_function(lowered)
        early == [module EXCEPT !.sections =
                     @ \o <<TypeSection, FunctionSectionOf, MemorySectionOf,
                            ExportSectionOf>>]
    IN IF ~func_body.ok THEN ErrGen(func_body.err, early)
       ELSE LET m == [early EXCEPT !.sections =
                         @ \o <<CodeSectionOf(func_body.wasm)>>]
            IN OkBytes(m, m)

\* generate(&mut self, lowered): compiles the body, appends the five
\* sections to self.module and returns the bytes of a clone of it.
generate(module, lowered) ==
    LET func_body == compile_function(lowered)
    IN IF ~func_body.ok THEN ErrGen(func_body.err, module)
       ELSE LET m == [module EXCEPT !.sections =
                         @ \o <<TypeSection, FunctionSectionOf, MemorySectionOf,
                                ExportSectionOf, CodeSectionOf(func_body.wasm)>>]
            IN OkBytes(m, m)

(***************************************************************************)
(* The compiler facade (compiler.rs).                                      *)
(***************************************************************************)
Min(a, b) == IF a <= b THEN a ELSE b

\* A slip of with_opt_level: the level is stored as given.
with_opt_level_unclamped(level) == level

\* with_opt_level: the level the compiler holds after the call.
with_opt_level(level) == Min(level, MaxOptLevel)

\* CompilerResult<Vec<u8>> with the stages that ran, in the order they ran,
\* and the instruction list handed to the code generator.
CompileOk(bytes, stages, ir) ==
    [kind |-> "Ok", bytes |-> bytes, msg |-> <<>>, stages |-> stages, ir |-> ir]
CompileErr(kind, msg, stages) ==
    [kind |-> kind, bytes |-> <<>>, msg |-> msg, stages |-> stages, ir |-> <<>>]

\* The body shared by compile_template and compile_policy once the AST is
\* lowered: optimize when opt_level > 0, then generate on a new WasmCodeGen.
CompileLowered(opt_level, lowered, stages) ==
    IF ~lowered.ok
    THEN CompileErr("CompilationError", lowered.err, Append(stages, "lower"))
    ELSE LET optimized_ir == IF opt_level > 0
                             THEN optimize(lowered.instructions, opt_level)
                             ELSE lowered.instructions
             ran == IF opt_level > 0
                    THEN stages \o <<"lower", "optimize", "generate">>
                    ELSE stages \o <<"lower", "generate">>
             wasm_bytes == generate(NewModule, optimized_ir)
         IN IF ~wasm_bytes.ok
            THEN CompileErr("WasmError", <<wasm_bytes.err>>, ran)
            ELSE CompileOk(wasm_bytes.bytes, ran, optimized_ir)

\* A slip of compile_template: a lowering failure is passed on to the later
\* stages as an empty module.
compile_template_swallows_lowering(opt_level, template, stages) ==
    LET lowered == from_template(template)
    IN CompileLowered(opt_level, OkInstrs(lowered.instructions), stages)

\* compile_template(&self, template); stages is what ran before it.
compile_template(opt_level, template, stages) ==
    CompileLowered(opt_level, from_template(template), stages)

\* compile_policy(&self, policy)
compile_policy(opt_level, policy) ==
    CompileLowered(opt_level, from_policy(policy), <<>>)

\* compile_str(&self, source): source.parses is the external parser's verdict
\* on the text and source.template the AST it yields.
compile_str(opt_level, source) ==
    IF ~source.parses
    THEN CompileErr("ParseError", <<"parse">>, <<"parse">>)
    ELSE compile_template(opt_level, source.template, <<"parse">>)

(***************************************************************************)
(* The target's execution and validation of a function body, as            *)
(* WebAssembly defines them.                                               *)
(***************************************************************************)
RECURSIVE BitsAnd(_, _)
\* Bitwise and of two's-complement integers (\div rounds down, so -1 is all
\* ones).
BitsAnd(a, b) ==
    IF a = 0 \/ b = 0 THEN 0
    ELSE IF a = -1 THEN b
    ELSE IF b = -1 THEN a
    ELSE ((a % 2) * (b % 2)) + 2 * BitsAnd(a \div 2, b \div 2)

RECURSIVE BitsOr(_, _)
\* Bitwise or of two's-complement integers.
BitsOr(a, b) ==
    IF a = 0 THEN b
    ELSE IF b = 0 THEN a
    ELSE IF a = -1 \/ b = -1 THEN -1
    ELSE (IF (a % 2) + (b % 2) > 0 THEN 1 ELSE 0) + 2 * BitsOr(a \div 2, b \div 2)

B2I(p) == IF p THEN 1 ELSE 0

Returned(v) == [status |-> "returned", v |-> v]
Stuck(why) == [status |-> why, v |-> 0]

RECURSIVE RunFrom(_, _, _)
\* Runs a body from instruction pc on the operand stack (top at the end),
\* without regard to operand widths. select pops the condition c, then val2,
\* then val1, and pushes val1 if c # 0, else val2. The run ends at the first
\* Return, or at End, with the value on top of the stack.
RunFrom(code, pc, stack) ==
    IF pc > Len(code) THEN Stuck("no end")
    ELSE
    LET ins == code[pc]
        n == Len(stack)
        top == stack[n]
        snd == stack[n - 1]
        pop1 == SubSeq(stack, 1, n - 1)
        pop2 == SubSeq(stack, 1, n - 2)
        bin(v) == IF n < 2 THEN Stuck("underflow")
                  ELSE RunFrom(code, pc + 1, Append(pop2, v))
    IN CASE ins.w \in {"I32Const", "I64Const"} ->
               RunFrom(code, pc + 1, Append(stack, ins.v))
         [] ins.w = "I64Eq" -> bin(B2I(snd = top))
         [] ins.w = "I64Ne" -> bin(B2I(snd # top))
         [] ins.w = "I64LtS" -> bin(B2I(snd < top))
         [] ins.w = "I64LeS" -> bin(B2I(snd <= top))
         [] ins.w = "I64GtS" -> bin(B2I(snd > top))
         [] ins.w = "I64GeS" -> bin(B2I(snd >= top))
         [] ins.w = "I32And" -> bin(BitsAnd(snd, top))
         [] ins.w = "I32Or" -> bin(BitsOr(snd, top))
         [] ins.w = "I32Eqz" ->
               IF n < 1 THEN Stuck("underflow")
               ELSE RunFrom(code, pc + 1, Append(pop1, B2I(top = 0)))
         [] ins.w = "Select" ->
               IF n < 3 THEN Stuck("underflow")
               ELSE LET c == stack[n]
                        val2 == stack[n - 1]
                        val1 == stack[n - 2]
                    IN RunFrom(code, pc + 1,
                               Append(SubSeq(stack, 1, n - 3),
                                      IF c # 0 THEN val1 ELSE val2))
         [] ins.w \in {"Return", "End"} ->
               IF n < 1 THEN Stuck("underflow") ELSE Returned(top)
         [] OTHER -> Stuck("unsupported")

Run(code) == RunFrom(code, 1, <<>>)

\* An instruction list run as a straight-line stack program: each instruction
\* is the opcode compile_instruction gives it; one with no opcode cannot run.
IRCode(instructions) ==
    [i \in 1..Len(instructions) |->
        LET r == compile_instruction(instructions[i])
        IN IF r.ok THEN r.wasm[1] ELSE W("Unsupported")] \o <<W("End")>>

ExecIR(instructions) == Run(IRCode(instructions))

RECURSIVE ValidFrom(_, _, _, _, _)
\* Operand-stack typing of a body whose result types are results. After a
\* Return the stack is polymorphic (poly): a pop from the empty stack then
\* yields an operand of any width ("Any").
ValidFrom(code, pc, stack, poly, results) ==
    IF pc > Len(code) THEN FALSE
    ELSE
    LET ins == code[pc]
        n == Len(stack)
        \* the types of the k topmost operands, top last, padded with "Any"
        topk(k) == [i \in 1..k |->
                       IF n - k + i >= 1 THEN stack[n - k + i] ELSE "Any"]
        enough(k) == n >= k \/ poly
        rest(k) == IF n >= k THEN SubSeq(stack, 1, n - k) ELSE <<>>
        is(t, want) == t = want \/ t = "Any"
        step(k, wants, push) ==
            /\ enough(k)
            /\ \A i \in 1..k : is(topk(k)[i], wants[i])
            /\ ValidFrom(code, pc + 1, rest(k) \o push, poly, results)
        ends == /\ enough(Len(results))
                /\ \A i \in 1..Len(results) :
                      is(topk(Len(results))[i], results[i])
    IN CASE ins.w = "I32Const" -> step(0, <<>>, <<"I32">>)
         [] ins.w = "I64Const" -> step(0, <<>>, <<"I64">>)
         [] ins.w \in {"I64Eq", "I64Ne", "I64LtS", "I64LeS", "I64GtS", "I64GeS"} ->
               step(2, <<"I64", "I64">>, <<"I32">>)
         [] ins.w \in {"I32And", "I32Or"} -> step(2, <<"I32", "I32">>, <<"I32">>)
         [] ins.w = "I32Eqz" -> step(1, <<"I32">>, <<"I32">>)
         [] ins.w = "Select" ->
               /\ enough(3)
               /\ LET t == topk(3)
                      pick == IF t[1] = "Any" THEN t[2] ELSE t[1]
                  IN /\ is(t[3], "I32")
                     /\ t[1] = t[2] \/ t[1] = "Any" \/ t[2] = "Any"
                     /\ ValidFrom(code, pc + 1, Append(rest(3), pick), poly, results)
         [] ins.w = "Return" ->
               ends /\ ValidFrom(code, pc + 1, <<>>, TRUE, results)
         [] ins.w = "End" ->
               /\ pc = Len(code)
               /\ ends
               /\ n = Len(results) \/ (poly /\ n <= Len(results))
         [] OTHER -> FALSE

\* Whether the body validates as a function of the entry point's type.
Valid(code) ==
    ValidFrom(code, 1, <<>>, FALSE,
              [i \in 1..Len(policy_entry.results) |->
                  to_val_type(policy_entry.results[i])])

(***************************************************************************)
(* The state machine: a caller holding one input, a Compiler and one       *)
(* long-lived WasmCodeGen, and making calls on them.                       *)
(***************************************************************************)
\* Instructions of the hand-built instruction lists.
IRAlphabet ==
    {PushBool(TRUE), Ins("Not"), Ins("And"), Ins("In"),
     GetAttribute("attr"), HasAttribute("attr"), Ins("IfThenElse"),
     Ins("Return"), Ins("Permit"), Ins("NoDecision")}

\* All instruction lists of length 0..MaxLen.
Modules == UNION {[1..n -> IRAlphabet] : n \in 0..MaxLen}

\* Arguments given to with_opt_level (a u8).
LevelArgs == {0, 1, 2, 10}

\* What the caller holds: a policy (as source text that parses to it, as a
\* Template and as a Policy), a source text that does not parse, or a
\* LoweredModule built by hand.
Inputs ==
    {[kind |-> "policy", template |-> t] : t \in Templates}
    \cup {[kind |-> "malformed"]}
    \cup {[kind |-> "module", instructions |-> m] : m \in Modules}

VARIABLES
    input,      \* the caller's input
    opt_level,  \* Compiler.opt_level
    codegen,    \* WasmCodeGen.module of the long-lived generator
    last        \* the last call and what it returned

vars == <<input, opt_level, codegen, last>>

Init ==
    /\ input \in Inputs
    /\ opt_level = DefaultOptLevel
    /\ codegen = NewModule
    /\ last = [op |-> "new"]

\* Compiler::with_opt_level(level). optimize and generate are called without
\* a Compiler, so the caller of a hand-built module configures none.
WithOptLevel ==
    \E level \in LevelArgs :
        /\ input.kind # "module"
        /\ opt_level' = with_opt_level(level)
        /\ last' = [op |-> "with_opt_level", level |-> level]
        /\ UNCHANGED <<input, codegen>>

\* Compiler::compile_str(source)
CompileStr ==
    /\ input.kind \in {"policy", "malformed"}
    /\ last' = [op |-> "compile",
                result |-> compile_str(opt_level,
                    IF input.kind = "policy"
                    THEN [parses |-> TRUE, template |-> input.template]
                    ELSE [parses |-> FALSE])]
    /\ UNCHANGED <<input, opt_level, codegen>>

\* Compiler::compile_template(template)
CompileTemplate ==
    /\ input.kind = "policy"
    /\ last' = [op |-> "compile",
                result |-> compile_template(opt_level, input.template, <<>>)]
    /\ UNCHANGED <<input, opt_level, codegen>>

\* Compiler::compile_policy(policy)
CompilePolicy ==
    /\ input.kind = "policy"
    /\ last' = [op |-> "compile",
                result |-> compile_policy(opt_level, input.template)]
    /\ UNCHANGED <<input, opt_level, codegen>>

\* optimization::optimize(module, level)
Optimize ==
    /\ input.kind = "module"
    /\ \E level \in 0..MaxOptLevel :
          last' = [op |-> "optimize", level |-> level,
                   module |-> optimize(input.instructions, level)]
    /\ UNCHANGED <<input, opt_level, codegen>>

\* The module of test_simple_permit_codegen.
SimplePermit == <<Ins("Permit"), Ins("Return")>>

\* WasmCodeGen::generate(lowered) on the long-lived generator, given the
\* caller's module or the simple permit module.
Generate ==
    /\ input.kind = "module"
    /\ Len(codegen.sections) < 5 * MaxGenerate
    /\ \E lowered \in {input.instructions, SimplePermit} :
          LET r == generate(codegen, lowered)
          IN /\ codegen' = r.module
             /\ last' = [op |-> "generate", lowered |-> lowered, ok |-> r.ok,
                         bytes |-> r.bytes, err |-> r.err]
    /\ UNCHANGED <<input, opt_level>>

Next ==
    \/ WithOptLevel
    \/ CompileStr
    \/ CompileTemplate
    \/ CompilePolicy
    \/ Optimize
    \/ Generate

Spec == Init /\ [][Next]_vars

(***************************************************************************)
(* What the claims speak of.                                               *)
(***************************************************************************)
\* The policy language's own value of a condition (its evaluator is outside
\* this repository): a typed value, "error" for an operand of the wrong type,
\* "unknown" where the value depends on the entity store.
BoolV(b) == [t |-> "bool", b |-> b]
LongV(i) == [t |-> "long", i |-> i]
ErrorV == [t |-> "error"]
UnknownV == [t |-> "unknown"]

RECURSIVE RefEval(_)
RefEval(e) ==
    CASE e.kind = "Lit" ->
            (CASE e.lit.t = "Bool" -> BoolV(e.lit.b)
               [] e.lit.t = "Long" -> LongV(e.lit.i)
               [] e.lit.t = "String" -> [t |-> "string", s |-> e.lit.s]
               [] e.lit.t = "EntityUID" -> [t |-> "entity", id |-> e.lit.hash])
      [] e.kind = "Var" -> UnknownV
      [] e.kind = "UnaryApp" /\ e.op = "Not" ->
            LET a == RefEval(e.arg)
            IN IF a.t = "bool" THEN BoolV(~a.b)
               ELSE IF a.t = "unknown" THEN UnknownV ELSE ErrorV
      [] e.kind = "BinaryApp" /\ e.op = "Eq" ->
            LET a == RefEval(e.arg1)
                b == RefEval(e.arg2)
            IN IF a.t = "error" \/ b.t = "error" THEN ErrorV
               ELSE IF a.t = "unknown" \/ b.t = "unknown" THEN UnknownV
               \* operands of different types: rejected by the language's
               \* validator, so not counted as a condition with a value
               ELSE IF a.t # b.t THEN ErrorV
               ELSE BoolV(a = b)
      [] e.kind = "BinaryApp" /\ e.op \in {"Less", "LessEq"} ->
            LET a == RefEval(e.arg1)
                b == RefEval(e.arg2)
            IN IF a.t = "long" /\ b.t = "long"
               THEN BoolV(IF e.op = "Less" THEN a.i < b.i ELSE a.i <= b.i)
               ELSE IF a.t \in {"long", "unknown"} /\ b.t \in {"long", "unknown"}
               THEN UnknownV ELSE ErrorV
      [] e.kind \in {"And", "Or"} ->
            LET a == RefEval(e.left)
                b == RefEval(e.right)
                short == (e.kind = "Or")
            IN IF a.t = "unknown" THEN UnknownV
               ELSE IF a.t # "bool" THEN ErrorV
               ELSE IF a.b = short THEN BoolV(short)
               ELSE IF b.t = "bool" THEN b
               ELSE IF b.t = "unknown" THEN UnknownV ELSE ErrorV
      [] e.kind = "If" ->
            LET c == RefEval(e.test_expr)
            IN IF c.t = "unknown" THEN UnknownV
               ELSE IF c.t # "bool" THEN ErrorV
               ELSE IF c.b THEN RefEval(e.then_expr) ELSE RefEval(e.else_expr)
      [] OTHER -> UnknownV

\* The decision code of a declared effect.
EffectCode(effect) ==
    IF effect = "Permit" THEN DecisionPermit ELSE DecisionDeny

\* The body of the exported function `evaluate` in the bytes generate returned
\* last: the body of the last code section.
EvaluateBody(bytes) == bytes.sections[Len(bytes.sections)].bodies[1]

Compiled == last.op = "compile" /\ last.result.kind = "Ok"

\* C1 (as claimed): a compiled policy, run, returns its effect's decision code
\* when its condition is true and NoDecision when it is false.
C1_DecisionOfEffect ==
    (Compiled /\ RefEval(input.template.condition).t = "bool") =>
        Run(EvaluateBody(last.result.bytes)) =
            Returned(IF RefEval(input.template.condition).b
                     THEN EffectCode(input.template.effect)
                     ELSE DecisionNoDecision)

\* C2 (as claimed): every module the pipeline emits is type-valid: every
\* opcode gets operands of the width it requires and one i32 is returned.
C2_EmittedModuleIsValid ==
    Compiled => Valid(EvaluateBody(last.result.bytes))

\* The code of one expression alone, run.
RunExpr(e) == ExecIR(compile_expr(e, <<>>).instructions)

RECURSIVE SubExprs(_)
\* The expression and every expression inside it.
SubExprs(e) ==
    {e} \cup
    (CASE e.kind \in {"UnaryApp"} -> SubExprs(e.arg)
       [] e.kind = "BinaryApp" -> SubExprs(e.arg1) \cup SubExprs(e.arg2)
       [] e.kind \in {"And", "Or"} -> SubExprs(e.left) \cup SubExprs(e.right)
       [] e.kind \in {"GetAttr", "HasAttr", "Like"} -> SubExprs(e.expr)
       [] e.kind = "If" -> SubExprs(e.test_expr) \cup SubExprs(e.then_expr)
                              \cup SubExprs(e.else_expr)
       [] OTHER -> {})

\* C3 (as claimed): the code of `if c then t else e` leaves the value of t
\* when c is true (non-zero) and the value of e when c is false.
C3_ConditionalPicksBranch ==
    Compiled =>
        \A e \in SubExprs(input.template.condition) :
            e.kind = "If" =>
                RunExpr(e) = IF RunExpr(e.test_expr).v # 0
                             THEN RunExpr(e.then_expr)
                             ELSE RunExpr(e.else_expr)

Optimized == last.op = "optimize"

\* C4: run as straight-line stack programs, the module optimized at any two
\* levels gives the same decision: no pass changes the value returned.
C4_LevelsAgree ==
    Optimized =>
        \A level \in 0..MaxOptLevel :
            ExecIR(optimize(input.instructions, level)) = ExecIR(last.module)

\* C4's case: level 2 removed instructions from a module that returns a value.
C4_Witness ==
    /\ Optimized
    /\ last.level = 2
    /\ last.module # input.instructions
    /\ ExecIR(last.module).status = "returned"

\* C5: optimize returns a module for every input and level, and optimizing
\* its result again at the same level gives the same instruction list.
C5_Idempotent ==
    Optimized =>
        /\ last.module \in Seq(IRAlphabet)
        /\ optimize(last.module, last.level) = last.module

\* C5's case: a module with several Returns was optimized.
C5_Witness ==
    /\ Optimized
    /\ last.level >= 1
    /\ Cardinality({i \in DOMAIN input.instructions :
                       input.instructions[i].op = "Return"}) >= 2
    /\ last.module # input.instructions

\* C6: at level >= 1 a module with a Return becomes its prefix up to and
\* including the first Return; a module with no Return is left unchanged.
C6_TruncatesAfterFirstReturn ==
    (Optimized /\ last.level >= 1) =>
        LET m == input.instructions
            out == last.module
        IN IF \E i \in DOMAIN m : m[i].op = "Return"
           THEN /\ Len(out) >= 1
                /\ Len(out) <= Len(m)
                /\ out = SubSeq(m, 1, Len(out))
                /\ out[Len(out)].op = "Return"
                /\ \A j \in 1..(Len(out) - 1) : out[j].op # "Return"
           ELSE out = m

\* C6's case: instructions followed the first Return and were dropped.
C6_Witness ==
    /\ Optimized
    /\ last.level >= 1
    /\ Len(input.instructions) = 3
    /\ input.instructions[2].op = "Return"
    /\ last.module = SubSeq(input.instructions, 1, 2)

\* The instructions the code generator has no opcode for.
NoOpcode == {"GetAttribute", "HasAttribute", "In"}

\* The error text that names an instruction without opcode.
NamesInstr(err, op) ==
    CASE op = "GetAttribute" -> err = "GetAttribute not yet implemented"
      [] op = "HasAttribute" -> err = "HasAttribute not yet implemented"
      [] op = "In" -> err = "In operator not yet implemented"
      [] OTHER -> FALSE

\* C7: a generate call on a module holding GetAttribute, HasAttribute or In
\* anywhere fails with an error naming such an instruction of the module,
\* returns no bytes and leaves the generator's module as it was.
C7_UnsupportedInstructionRejected ==
    [][(last'.op = "generate"
        /\ \E i \in DOMAIN last'.lowered : last'.lowered[i].op \in NoOpcode)
       => /\ ~last'.ok
          /\ last'.bytes = <<>>
          /\ \E i \in DOMAIN last'.lowered :
                /\ last'.lowered[i].op \in NoOpcode
                /\ NamesInstr(last'.err, last'.lowered[i].op)
          /\ codegen' = codegen]_vars

\* C7's case: the unsupported instruction follows a Return, and the call
\* failed on a generator that had generated before.
C7_Witness ==
    /\ last.op = "generate"
    /\ ~last.ok
    /\ last.lowered = <<Ins("Permit"), Ins("Return"), Ins("In")>>
    /\ last.err = "In operator not yet implemented"
    /\ Len(codegen.sections) = 5

\* The constructs of a condition lowering has no instruction for.
Rejected(e) ==
    \/ e.kind = "BinaryApp" /\ e.op \notin {"Eq", "In", "Less", "LessEq"}
    \/ e.kind = "UnaryApp" /\ e.op # "Not"
    \/ e.kind \notin {"Lit", "BinaryApp", "UnaryApp", "And", "Or", "GetAttr",
                      "HasAttr", "If", "Var"}

\* The name an error gives a rejected construct.
ConstructName(e) == IF e.kind \in {"BinaryApp", "UnaryApp"} THEN e.op ELSE e.kind

\* C8: lowering a condition that holds a rejected construct at any depth
\* fails with an error naming one of them and produces no module (no later
\* stage runs); lowering any other condition succeeds.
C8_LoweringRejectsExactlyUnsupported ==
    (last.op = "compile" /\ input.kind = "policy") =>
        LET bad == {e \in SubExprs(input.template.condition) : Rejected(e)}
            r == last.result
        IN IF bad # {}
           THEN /\ r.kind = "CompilationError"
                /\ Len(r.msg) = 2
                /\ r.msg[2] \in {ConstructName(e) : e \in bad}
                /\ r.ir = <<>>
                /\ r.stages[Len(r.stages)] = "lower"
           ELSE /\ r.kind \in {"Ok", "WasmError"}
                /\ "generate" \in {r.stages[i] : i \in DOMAIN r.stages}

\* C8's case: a rejected operator below a supported one was refused.
C8_Witness ==
    /\ last.op = "compile"
    /\ input.kind = "policy"
    /\ input.template.condition.kind = "UnaryApp"
    /\ input.template.condition.op = "Not"
    /\ input.template.condition.arg.kind = "BinaryApp"
    /\ input.template.condition.arg.op = "Add"
    /\ last.result.kind = "CompilationError"
    /\ last.result.msg = <<"Unsupported binary operator", "Add">>

\* Position of a stage in the pipeline.
StageRank(st) ==
    CASE st = "parse" -> 1 [] st = "lower" -> 2
      [] st = "optimize" -> 3 [] st = "generate" -> 4

\* The constructs that lower to an instruction without opcode.
NeedsRuntime(e) ==
    \/ e.kind \in {"GetAttr", "HasAttr"}
    \/ e.kind = "BinaryApp" /\ e.op = "In"

\* C9: a compile call runs its stages in pipeline order and stops at the
\* first that fails: ParseError from parsing, CompilationError from lowering,
\* WasmError from code generation, bytes only when all succeed. A condition
\* with `in`, attribute access or an attribute test (and nothing lowering
\* rejects) fails with WasmError.
C9_FirstFailingStage ==
    last.op = "compile" =>
        LET r == last.result
            n == Len(r.stages)
            conds == IF input.kind = "policy"
                     THEN SubExprs(input.template.condition) ELSE {}
        IN /\ n >= 1
           /\ \A i \in 1..(n - 1) : StageRank(r.stages[i]) < StageRank(r.stages[i + 1])
           /\ r.stages[1] \in {"parse", "lower"}
           /\ "lower" \in {r.stages[i] : i \in 1..n} \/ r.stages = <<"parse">>
           /\ r.kind = "ParseError" <=> input.kind = "malformed"
           /\ r.kind = "ParseError" => r.stages = <<"parse">>
           /\ r.kind = "CompilationError" <=> \E e \in conds : Rejected(e)
           /\ r.kind = "CompilationError" => r.stages[n] = "lower"
           /\ r.kind = "WasmError" <=>
                 /\ \E e \in conds : NeedsRuntime(e)
                 /\ \A e \in conds : ~Rejected(e)
           /\ r.kind \in {"WasmError", "Ok"} => r.stages[n] = "generate"
           /\ r.kind # "Ok" => r.bytes = <<>> /\ r.msg # <<>>
           /\ r.kind = "Ok" => r.bytes # <<>> /\ r.bytes.magic = "\\0asm"
           /\ r.kind \in {"ParseError", "CompilationError", "WasmError", "Ok"}

\* C9's case: a condition using `in` passed lowering and optimization and
\* failed in code generation.
C9_Witness ==
    /\ last.op = "compile"
    /\ input.kind = "policy"
    /\ input.template.condition.kind = "BinaryApp"
    /\ input.template.condition.op = "In"
    /\ last.result.kind = "WasmError"
    /\ last.result.stages = <<"parse", "lower", "optimize", "generate">>

\* C10 (as claimed): the bytes of every successful generate call, whatever
\* calls came before on the same generator, begin with the magic number and
\* hold exactly the type, function, memory, export and code sections, with
\* the memory of 1..16 pages and the exports `evaluate` and `memory`.
C10_OneOfEachSection ==
    (last.op = "generate" /\ last.ok) =>
        LET secs == last.bytes.sections
        IN /\ last.bytes.magic = "\\0asm"
           /\ [i \in DOMAIN secs |-> secs[i].id] =
                 <<"type", "function", "memory", "export", "code">>
           /\ secs[3].memories = <<[minimum |-> 1, maximum |-> 16]>>
           /\ [i \in DOMAIN secs[4].exports |->
                  <<secs[4].exports[i].name, secs[4].exports[i].kind>>] =
                 <<<<"evaluate", "Func">>, <<"memory", "Memory">>>>

\* C11: the compiler's level always lies in 0..2: it is 1 until it is set,
\* and min(argument, 2) after a with_opt_level call; a compilation at level 0
\* hands the code generator exactly the lowerer's output, and no pass runs.
C11_LevelClamped ==
    /\ opt_level \in 0..2
    /\ last.op = "new" => opt_level = 1
    /\ last.op = "with_opt_level" =>
          opt_level = IF last.level > 2 THEN 2 ELSE last.level
    /\ (Compiled /\ opt_level = 0) =>
          /\ last.result.ir = from_template(input.template).instructions
          /\ \A i \in DOMAIN last.result.stages :
                last.result.stages[i] # "optimize"

\* C11's case: with_opt_level(10) left the compiler at level 2.
C11_Witness ==
    /\ last.op = "with_opt_level"
    /\ last.level = 10
    /\ opt_level = 2

\* The instructions of a module that run: those up to its first Return.
BeforeFirstReturn(module) ==
    IF ReturnPosition(module) = 0
    THEN module
    ELSE SubSeq(module, 1, ReturnPosition(module))

\* A sub-expression computable at compile time: a constant negated, or two
\* constants joined by And or Or.
HasConstantSubExpr(module) ==
    \/ \E i \in 1..(Len(module) - 1) :
          /\ module[i].op = "PushBool"
          /\ module[i + 1].op = "Not"
    \/ \E i \in 1..(Len(module) - 2) :
          /\ module[i].op = "PushBool"
          /\ module[i + 1].op = "PushBool"
          /\ module[i + 2].op \in {"And", "Or"}

\* C12: at level 1 and above, a module with a constant sub-expression before
\* its first Return comes out of optimize strictly shorter, and no constant
\* sub-expression is left in the part of the result that runs.
C12_ConstantsFolded ==
    (/\ Optimized
     /\ last.level >= 1
     /\ HasConstantSubExpr(BeforeFirstReturn(input.instructions))) =>
        /\ Len(last.module) < Len(input.instructions)
        /\ ~HasConstantSubExpr(BeforeFirstReturn(last.module))

\* Two consecutive Not instructions somewhere in the module.
HasAdjacentNots(module) ==
    \E i \in 1..(Len(module) - 1) :
        /\ module[i].op = "Not"
        /\ module[i + 1].op = "Not"

\* C13: the result of optimize at level 2 has no two adjacent Not
\* instructions, and a module with such a pair before its first Return comes
\* out without the pair.
C13_DoubleNegationCancelled ==
    (Optimized /\ last.level = 2) =>
        /\ ~HasAdjacentNots(last.module)
        /\ HasAdjacentNots(BeforeFirstReturn(input.instructions)) =>
              Len(last.module) <= Len(input.instructions) - 2

\* A compile call whose policy the lowerer accepted.
LoweredOk ==
    /\ last.op = "compile"
    /\ input.kind = "policy"
    /\ from_template(input.template).ok

\* Assembled(instructions, first, second, template): instructions are first,
\* second, the code of the template's condition, IfThenElse, Return.
Assembled(instructions, first, second, template) ==
    LET n == Len(instructions)
    IN /\ n >= 5
       /\ instructions[1] = first
       /\ instructions[2] = second
       /\ compile_expr(template.condition, <<>>).ok
       /\ SubSeq(instructions, 3, n - 2) =
             compile_expr(template.condition, <<>>).instructions
       /\ instructions[n - 1] = Ins("IfThenElse")
       /\ instructions[n] = Ins("Return")

ReturnCount(module) ==
    Cardinality({i \in 1..Len(module) : module[i].op = "Return"})

\* At least one instruction, exactly one Return, and it is the last.
OneTerminalReturn(module) ==
    /\ Len(module) >= 1
    /\ ReturnCount(module) = 1
    /\ module[Len(module)].op = "Return"

\* C15: the module of a successful lowering, and what optimize makes of it at
\* each level 0..2, has at least one instruction and exactly one Return, its
\* last instruction; so has the module a successful compilation generated
\* code from.
C15_OneTerminalReturn ==
    /\ LoweredOk =>
          /\ OneTerminalReturn(from_template(input.template).instructions)
          /\ OneTerminalReturn(from_policy(input.template).instructions)
          /\ \A level \in 0..MaxOptLevel :
                OneTerminalReturn(
                    optimize(from_template(input.template).instructions, level))
    /\ Compiled => OneTerminalReturn(last.result.ir)

\* C15's case: a policy with a multi-instruction condition went through the
\* passes of level 2 and compiled.
C15_Witness ==
    /\ LoweredOk
    /\ Compiled
    /\ opt_level = 2
    /\ Len(last.result.ir) >= 6

\* What an instruction takes from the stack.
Pops(inst) ==
    CASE inst.op \in {"Equal", "LessThan", "LessThanOrEqual", "And", "Or", "In"} -> 2
      [] inst.op \in {"Not", "GetAttribute", "HasAttribute"} -> 1
      [] inst.op = "IfThenElse" -> 3
      [] OTHER -> 0

\* What an instruction leaves on the stack.
Pushes(inst) ==
    IF inst.op = "Return" THEN 0 ELSE 1

RECURSIVE StackDepth(_, _)
\* StackDepth(code, depth): the stack depth after running code from the given
\* depth, or -1 when an instruction pops more than the stack holds.
StackDepth(code, depth) ==
    IF depth < 0 THEN -1
    ELSE IF code = <<>> THEN depth
    ELSE IF depth < Pops(Head(code)) THEN -1
    ELSE StackDepth(Tail(code), depth - Pops(Head(code)) + Pushes(Head(code)))

\* C16: the code of every expression that lowers runs from an empty stack
\* without popping past its bottom and leaves one value more; so a lowered
\* policy has three values on the stack just before its final IfThenElse and
\* one at its Return.
C16_StackBalanced ==
    LoweredOk =>
        /\ \A e \in SubExprs(input.template.condition) :
              compile_expr(e, <<>>).ok =>
                  StackDepth(compile_expr(e, <<>>).instructions, 0) = 1
        /\ LET ir == from_template(input.template).instructions
               n == Len(ir)
           IN /\ ir[n - 1].op = "IfThenElse"
              /\ ir[n].op = "Return"
              /\ StackDepth(SubSeq(ir, 1, n - 2), 0) = 3
              /\ StackDepth(SubSeq(ir, 1, n - 1), 0) = 1

\* C16's case: a lowered policy whose condition holds a conditional, the
\* instruction that takes three values.
C16_Witness ==
    /\ LoweredOk
    /\ \E i \in 1..(Len(from_template(input.template).instructions) - 2) :
          from_template(input.template).instructions[i].op = "IfThenElse"

====
